---- MODULE Spec2Model ----
(***************************************************************************)
(* Token conflict map of the lexical-table builder                         *)
(* (src/build_tables/token_conflicts.rs).                                   *)
(*                                                                         *)
(* TokenConflictMap::new walks every pair of tokens i > j, runs the        *)
(* worklist search compute_conflict_status over state sets of the shared   *)
(* NFA, and stores the two returned records at (i, j) and (j, i) of a      *)
(* dense n*n matrix.  The queries read that matrix.                        *)
(*                                                                         *)
(* Rust Vec values are modelled as sequences; At(v, k) is v[k] of the      *)
(* source (0-based).  Character sets are sets of representative            *)
(* characters.                                                             *)
(***************************************************************************)
EXTENDS Integers, Sequences, FiniteSets, TLC

\* Largest precedence value drawn for completions, advances and tokens.
MaxPrecedence == 1
\* The follow-set list supplied to new has between 0 and n + this many entries.
MaxExtraFollowSets == 1

---------------------------------------------------------------------------
(* Vec helpers *)

At(v, k) == v[k + 1]

\* The bounds check taking the last index for out of range.
InRangeShort(v, k) == k >= 0 /\ k + 1 < Len(v)

\* The bounds check of v[k].
InRange(v, k) == k >= 0 /\ k < Len(v)

Last(v) == v[Len(v)]

Front(v) == SubSeq(v, 1, Len(v) - 1)

Max2(a, b) == IF a >= b THEN a ELSE b

\* The elements of a set of integers in increasing order.
RECURSIVE SortedSeq(_)
SortedSeq(S) ==
    IF S = {} THEN <<>>
    ELSE LET m == CHOOSE x \in S : \A y \in S : x <= y
         IN  <<m>> \o SortedSeq(S \ {m})

---------------------------------------------------------------------------
(* The NFA (crate::nfa) and the lexical grammar (crate::grammars) *)

Advance(chars, state_id, is_sep, precedence) ==
    [kind |-> "Advance", chars |-> chars, state_id |-> state_id, is_sep |-> is_sep,
     precedence |-> precedence, left |-> 0, right |-> 0, variable_index |-> 0]

Split(left, right) ==
    [kind |-> "Split", chars |-> {}, state_id |-> 0, is_sep |-> FALSE,
     precedence |-> 0, left |-> left, right |-> right, variable_index |-> 0]

Accept(variable_index, precedence) ==
    [kind |-> "Accept", chars |-> {}, state_id |-> 0, is_sep |-> FALSE,
     precedence |-> precedence, left |-> 0, right |-> 0, variable_index |-> variable_index]

Variable(name, implicit_precedence, start_state) ==
    [name |-> name, implicit_precedence |-> implicit_precedence, start_state |-> start_state]

\* The representative characters, in the order CharacterSet compares them.
Alphabet == <<" ", "a", "b", "c", "e", "f", "i", "n", "o", "s", "t", "w">>

CharOrd(c) == CHOOSE k \in 1..Len(Alphabet) : Alphabet[k] = c

\* \w: the letters of the literals and "w" for every other word character.
WordChars == {"a", "b", "c", "e", "f", "i", "n", "o", "s", "t", "w"}

\* The grammar of tests::test_token_conflicts: `in`, identifier (\w+), `instanceof`.
\* Each variable's states are contiguous, its Accept state first and its start
\* state last.  sp is the implicit precedence of the two string tokens.
TestGrammar(sp) ==
    [name |-> "test_token_conflicts",
     nfa |-> << Accept(0, 0),
                Advance({"n"}, 0, FALSE, 0),
                Advance({"i"}, 1, FALSE, 0),
                Accept(1, 0),
                Split(5, 3),
                Advance(WordChars, 4, FALSE, 0),
                Accept(2, 0),
                Advance({"f"}, 6, FALSE, 0),
                Advance({"o"}, 7, FALSE, 0),
                Advance({"e"}, 8, FALSE, 0),
                Advance({"c"}, 9, FALSE, 0),
                Advance({"n"}, 10, FALSE, 0),
                Advance({"a"}, 11, FALSE, 0),
                Advance({"t"}, 12, FALSE, 0),
                Advance({"s"}, 13, FALSE, 0),
                Advance({"n"}, 14, FALSE, 0),
                Advance({"i"}, 15, FALSE, 0) >>,
     variables |-> << Variable("in", sp, 2),
                      Variable("identifier", 0, 5),
                      Variable("instanceof", sp, 16) >>]

\* Two tokens that both match exactly "a": completion precedences p0, p1 and
\* implicit precedences ip0, ip1.
TieGrammar(p0, p1, ip0, ip1) ==
    [name |-> "tie",
     nfa |-> << Accept(0, p0),
                Advance({"a"}, 0, FALSE, p0),
                Accept(1, p1),
                Advance({"a"}, 2, FALSE, p1) >>,
     variables |-> << Variable("a_first", ip0, 1), Variable("a_second", ip1, 3) >>]

\* Token 0 matches "a" with precedence p, token 1 matches "ab" with precedence q.
ShortLongGrammar(p, q) ==
    [name |-> "short_long",
     nfa |-> << Accept(0, p),
                Advance({"a"}, 0, FALSE, p),
                Accept(1, q),
                Advance({"b"}, 2, FALSE, q),
                Advance({"a"}, 3, FALSE, q) >>,
     variables |-> << Variable("a", 0, 1), Variable("ab", 0, 4) >>]

\* Token 0 matches "ab" with precedence q, token 1 matches "a" with precedence p.
LongShortGrammar(p, q) ==
    [name |-> "long_short",
     nfa |-> << Accept(0, q),
                Advance({"b"}, 0, FALSE, q),
                Advance({"a"}, 1, FALSE, q),
                Accept(1, p),
                Advance({"a"}, 3, FALSE, p) >>,
     variables |-> << Variable("ab", 0, 2), Variable("a", 0, 4) >>]

\* Token 0 matches a+, token 1 matches a+b: the search meets a state set again.
LoopGrammar ==
    [name |-> "loop",
     nfa |-> << Accept(0, 0),
                Split(2, 0),
                Advance({"a"}, 1, FALSE, 0),
                Accept(1, 0),
                Advance({"b"}, 3, FALSE, 0),
                Split(6, 4),
                Advance({"a"}, 5, FALSE, 0) >>,
     variables |-> << Variable("a_plus", 0, 2), Variable("a_plus_b", 0, 6) >>]

\* Token 0 matches a+b, token 1 matches a+: after "a" token 1 has completed and
\* the group on "a" holds a state of token 0 and then one of token 1.
LoopSecondGrammar ==
    [name |-> "loop_second",
     nfa |-> << Accept(0, 0),
                Advance({"b"}, 0, FALSE, 0),
                Split(3, 1),
                Advance({"a"}, 2, FALSE, 0),
                Accept(1, 0),
                Split(6, 4),
                Advance({"a"}, 5, FALSE, 0) >>,
     variables |-> << Variable("a_plus_b", 0, 3), Variable("a_plus", 0, 6) >>]

\* Token 0 is an immediate token matching "a" or nothing; token 1 matches "b"
\* after any number of separators " ".
SepSecondGrammar ==
    [name |-> "sep_second",
     nfa |-> << Accept(0, 0),
                Advance({"a"}, 0, FALSE, 0),
                Split(1, 0),
                Accept(1, 0),
                Advance({"b"}, 3, FALSE, 0),
                Split(7, 4),
                Advance({" "}, 5, TRUE, 0),
                Split(6, 5) >>,
     variables |-> << Variable("opt_a", 0, 2), Variable("b", 0, 7) >>]

\* Token 0 matches "b" after separators; token 1 is the immediate token.
SepFirstGrammar ==
    [name |-> "sep_first",
     nfa |-> << Accept(0, 0),
                Advance({"b"}, 0, FALSE, 0),
                Split(4, 1),
                Advance({" "}, 2, TRUE, 0),
                Split(3, 2),
                Accept(1, 0),
                Advance({"a"}, 5, FALSE, 0),
                Split(6, 5) >>,
     variables |-> << Variable("b", 0, 4), Variable("opt_a", 0, 7) >>]

\* Token 0 matches "ab", token 1 matches "ab", "ac" or "ace" through three
\* states that advance on "a": after "a" the state set holds one state of token
\* 0 and three of token 1, and after "ac" two states of token 1 alone.
WideGrammar ==
    [name |-> "wide",
     nfa |-> << Accept(0, 0),
                Advance({"b"}, 0, FALSE, 0),
                Advance({"a"}, 1, FALSE, 0),
                Accept(1, 0),
                Advance({"e"}, 3, FALSE, 0),
                Advance({"b"}, 3, FALSE, 0),
                Advance({"c"}, 3, FALSE, 0),
                Advance({"c"}, 4, FALSE, 0),
                Advance({"a"}, 5, FALSE, 0),
                Advance({"a"}, 6, FALSE, 0),
                Advance({"a"}, 7, FALSE, 0),
                Split(8, 9),
                Split(11, 10) >>,
     variables |-> << Variable("ab", 0, 2), Variable("ab_ac_ace", 0, 12) >>]

\* Token 0 matches "ac" or "bc", token 1 matches "ac", "bc", "ace" or "bce":
\* the seed leads to two state sets that both hold states of both tokens and
\* both lead on "c" to one state set, where the two tokens tie.
DiamondGrammar ==
    [name |-> "diamond",
     nfa |-> << Accept(0, 0),
                Advance({"c"}, 0, FALSE, 0),
                Advance({"c"}, 0, FALSE, 0),
                Advance({"a"}, 1, FALSE, 0),
                Advance({"b"}, 2, FALSE, 0),
                Split(3, 4),
                Accept(1, 0),
                Advance({"e"}, 6, FALSE, 0),
                Split(7, 6),
                Advance({"c"}, 8, FALSE, 0),
                Advance({"c"}, 8, FALSE, 0),
                Advance({"a"}, 9, FALSE, 0),
                Advance({"b"}, 10, FALSE, 0),
                Split(11, 12) >>,
     variables |-> << Variable("xc", 0, 5), Variable("xc_e", 0, 13) >>]

\* A hand-built NFA in which a transition leads back to the seed state set of
\* the pair: on "a" the state of token 0 advances to the start state of token 1
\* and the state of token 1 to the start state of token 0.
SeedLoopGrammar ==
    [name |-> "seed_loop",
     nfa |-> << Accept(0, 0),
                Advance({"a"}, 3, FALSE, 0),
                Accept(1, 0),
                Advance({"a"}, 1, FALSE, 0) >>,
     variables |-> << Variable("to_second", 0, 1), Variable("to_first", 0, 3) >>]

\* Token 0 matches "a" at precedence 1.  Token 1 matches "a" and then one of
\* "be", "on" (the "b" and the "o" at precedence 0), "fe", "ce" or "cn": after
\* "a" token 0 has completed, the advances on "b" and "o" are below its
\* precedence and those on "f" and "c" are not, "b" and "f" lead to the same
\* state, and "c" leads to two states of token 1.  Token 2 matches "c", so that
\* "c" can follow a token.
BranchGrammar ==
    [name |-> "branch",
     nfa |-> << Accept(0, 1),
                Advance({"a"}, 0, FALSE, 1),
                Accept(1, 1),
                Advance({"e"}, 2, FALSE, 1),
                Advance({"n"}, 2, FALSE, 1),
                Advance({"b"}, 3, FALSE, 0),
                Advance({"f"}, 3, FALSE, 1),
                Advance({"c"}, 3, FALSE, 1),
                Advance({"c"}, 4, FALSE, 1),
                Advance({"o"}, 4, FALSE, 0),
                Split(5, 6),
                Split(7, 8),
                Split(10, 11),
                Split(12, 9),
                Advance({"a"}, 13, FALSE, 1),
                Accept(2, 1),
                Advance({"c"}, 15, FALSE, 1) >>,
     variables |-> << Variable("a", 0, 1), Variable("a_branches", 0, 14),
                      Variable("c", 0, 16) >>]

Precedences == 0..MaxPrecedence

Grammars ==
    {TestGrammar(sp) : sp \in Precedences}
    \cup {TieGrammar(p[1], p[2], ip[1], ip[2]) :
              p \in Precedences \X Precedences, ip \in Precedences \X Precedences}
    \cup {ShortLongGrammar(p[1], p[2]) : p \in Precedences \X Precedences}
    \cup {LongShortGrammar(p[1], p[2]) : p \in Precedences \X Precedences}
    \cup {LoopGrammar, LoopSecondGrammar, SepSecondGrammar, SepFirstGrammar,
          SeedLoopGrammar, BranchGrammar, WideGrammar, DiamondGrammar}

\* LexicalGrammar::variable_index_for_nfa_state: the first variable whose start
\* state is not below the state.
variable_index_for_nfa_state(grammar, state_id) ==
    (CHOOSE k \in 1..Len(grammar.variables) :
        /\ grammar.variables[k].start_state >= state_id
        /\ \A l \in 1..(k - 1) : grammar.variables[l].start_state < state_id) - 1

---------------------------------------------------------------------------
(* NfaCursor *)

\* NfaCursor::add_states: follows Split states, keeps the other states as a
\* sorted list without duplicates.
RECURSIVE add_states(_, _, _, _)
add_states(nfa, new_state_ids, idx, state_ids) ==
    IF idx > Len(new_state_ids) THEN SortedSeq(state_ids)
    ELSE LET state_id == new_state_ids[idx]
             state == At(nfa, state_id)
             present == {new_state_ids[k] : k \in 1..Len(new_state_ids)}
         IN  IF state.kind = "Split"
             THEN LET withLeft ==
                          IF state.left \in present THEN new_state_ids
                          ELSE Append(new_state_ids, state.left)
                      withRight ==
                          IF state.right \in present THEN withLeft
                          ELSE Append(withLeft, state.right)
                  IN  add_states(nfa, withRight, idx + 1, state_ids)
             ELSE add_states(nfa, new_state_ids, idx + 1, state_ids \cup {state_id})

\* NfaCursor::reset
reset(nfa, states) == add_states(nfa, states, 1, {})

\* NfaCursor::successors: the Advance states of the cursor, in order.
successors(nfa, cursor) ==
    SelectSeq([k \in 1..Len(cursor) |-> At(nfa, cursor[k])],
              LAMBDA s : s.kind = "Advance")

\* NfaCursor::completions: (variable_index, precedence) of the Accept states.
completions(nfa, cursor) ==
    LET accepts == SelectSeq([k \in 1..Len(cursor) |-> At(nfa, cursor[k])],
                             LAMBDA s : s.kind = "Accept")
    IN  [k \in 1..Len(accepts) |-> <<accepts[k].variable_index, accepts[k].precedence>>]

MinOrd(chars) == CHOOSE o \in {CharOrd(c) : c \in chars} :
                     \A c \in chars : o <= CharOrd(c)

RECURSIVE MaxPrecOf(_, _)
MaxPrecOf(succ, ks) ==
    IF Len(ks) = 1 THEN succ[ks[1]].precedence
    ELSE Max2(succ[ks[1]].precedence, MaxPrecOf(succ, Tail(ks)))

\* NfaCursor::grouped_successors: one group per class of characters that take
\* the same transitions: (chars, precedence, next states, in_sep), sorted by chars.
grouped_successors(nfa, cursor) ==
    LET succ == successors(nfa, cursor)
        used == UNION {succ[k].chars : k \in 1..Len(succ)}
        Sig(c) == {k \in 1..Len(succ) : c \in succ[k].chars}
        sigs == {Sig(c) : c \in used}
        Group(sig) ==
            LET ks == SortedSeq(sig)
            IN  [chars |-> {c \in used : Sig(c) = sig},
                 precedence |-> MaxPrecOf(succ, ks),
                 states |-> [k \in 1..Len(ks) |-> succ[ks[k]].state_id],
                 in_sep |-> \A k \in sig : succ[k].is_sep]
        groups == {Group(sig) : sig \in sigs}
        order == SortedSeq({MinOrd(g.chars) : g \in groups})
    IN  [k \in 1..Len(order) |-> CHOOSE g \in groups : MinOrd(g.chars) = order[k]]

---------------------------------------------------------------------------
(* token_conflicts.rs: the pure functions *)

\* TokenConflictStatus::default()
DefaultStatus ==
    [does_overlap |-> FALSE, does_match_valid_continuation |-> FALSE,
     does_match_separators |-> FALSE, matches_same_string |-> FALSE]

\* Symbols of a follow-set (LookaheadSet): only Terminal ones are is_terminal().
Symbol(kind, index) == [kind |-> kind, index |-> index]

is_terminal(symbol) == symbol.kind = "Terminal"

\* matrix_index with the two ordinals exchanged.
matrix_index_transposed(variable_count, i, j) == variable_count * j + i

matrix_index(variable_count, i, j) == variable_count * i + j

\* prefer_token without the final comparison of ordinals: equal precedences tie.
prefer_token_no_ordinal(grammar, left, right) ==
    IF left[1] > right[1] THEN TRUE
    ELSE IF left[1] < right[1] THEN FALSE
    ELSE At(grammar.variables, left[2]).implicit_precedence
             > At(grammar.variables, right[2]).implicit_precedence

\* prefer_token that skips the implicit precedences of the two tokens.
prefer_token_no_implicit(grammar, left, right) ==
    IF left[1] > right[1] THEN TRUE
    ELSE IF left[1] < right[1] THEN FALSE
    ELSE left[2] < right[2]

\* TokenConflictMap::prefer_token; left and right are <<precedence, ordinal>>.
prefer_token(grammar, left, right) ==
    IF left[1] > right[1] THEN TRUE
    ELSE IF left[1] < right[1] THEN FALSE
    ELSE LET l == At(grammar.variables, left[2]).implicit_precedence
             r == At(grammar.variables, right[2]).implicit_precedence
         IN  IF l < r THEN FALSE
             ELSE IF l > r THEN TRUE
             ELSE left[2] < right[2]

RECURSIVE add_all_chars(_, _)
add_all_chars(succ, all_chars) ==
    IF succ = <<>> THEN all_chars
    ELSE add_all_chars(Tail(succ), all_chars \cup Head(succ).chars)

\* get_starting_chars: per variable, the characters of the successors of its
\* start state.
get_starting_chars(grammar) ==
    [k \in 1..Len(grammar.variables) |->
        add_all_chars(
            successors(grammar.nfa, reset(grammar.nfa, <<grammar.variables[k].start_state>>)),
            {})]

\* add_following without the is_terminal test.
RECURSIVE add_following_any_symbol(_, _, _)
add_following_any_symbol(starting_chars, tokens, chars) ==
    IF tokens = <<>> THEN chars
    ELSE add_following_any_symbol(
             starting_chars, Tail(tokens),
             chars \cup At(starting_chars, Head(tokens).index))

\* The loop of get_following_chars over one follow-set.
RECURSIVE add_following(_, _, _)
add_following(starting_chars, tokens, chars) ==
    IF tokens = <<>> THEN chars
    ELSE LET token == Head(tokens)
         IN  add_following(
                 starting_chars, Tail(tokens),
                 IF is_terminal(token) THEN chars \cup At(starting_chars, token.index)
                 ELSE chars)

get_following_chars(starting_chars, following_tokens) ==
    [k \in 1..Len(following_tokens) |->
        add_following(starting_chars, following_tokens[k], {})]

\* variable_ids_for_states: the owning variables, adjacent repetitions dropped.
RECURSIVE variable_ids_from(_, _, _, _)
variable_ids_from(state_ids, grammar, k, prev) ==
    IF k > Len(state_ids) THEN <<>>
    ELSE LET variable_id == variable_index_for_nfa_state(grammar, state_ids[k])
         IN  IF prev # <<variable_id>>
             THEN <<variable_id>> \o variable_ids_from(state_ids, grammar, k + 1, <<variable_id>>)
             ELSE variable_ids_from(state_ids, grammar, k + 1, prev)

variable_ids_for_states(state_ids, grammar) ==
    variable_ids_from(state_ids, grammar, 1, <<>>)

---------------------------------------------------------------------------
(* compute_conflict_status: one pass of the while loop *)

\* An insert that reports every value as new.
visited_insert_always(visited_state_sets, next_states) == TRUE

\* HashSet::insert: whether the value is new.
visited_insert(visited_state_sets, next_states) == next_states \notin visited_state_sets

\* mark_same_string writing to the record of the token that lost the tie.
mark_same_string_on_loser(result, winning_id, i) ==
    IF winning_id = i
    THEN <<result[1], [result[2] EXCEPT !.matches_same_string = TRUE, !.does_overlap = TRUE]>>
    ELSE <<[result[1] EXCEPT !.matches_same_string = TRUE, !.does_overlap = TRUE], result[2]>>

\* The flags set for the winner of a completion tie (lines 206-212).
mark_same_string(result, winning_id, i) ==
    IF winning_id = i
    THEN <<[result[1] EXCEPT !.matches_same_string = TRUE, !.does_overlap = TRUE], result[2]>>
    ELSE <<result[1], [result[2] EXCEPT !.matches_same_string = TRUE, !.does_overlap = TRUE]>>

\* The loop over cursor.completions() (lines 185-216).  completion is <<>> for
\* None and <<id, precedence>> otherwise.
RECURSIVE fold_completions(_, _, _, _, _)
fold_completions(grammar, comps, i, completion, result) ==
    IF comps = <<>> THEN [completion |-> completion, result |-> result]
    ELSE LET id == Head(comps)[1]
             precedence == Head(comps)[2]
         IN  IF completion = <<>>
             THEN fold_completions(grammar, Tail(comps), i, <<id, precedence>>, result)
             ELSE IF id = completion[1]
             THEN fold_completions(grammar, Tail(comps), i, completion, result)
             ELSE IF prefer_token(grammar, <<completion[2], completion[1]>>, <<precedence, id>>)
             THEN fold_completions(grammar, Tail(comps), i, completion,
                                   mark_same_string(result, completion[1], i))
             ELSE fold_completions(grammar, Tail(comps), i, <<id, precedence>>,
                                   mark_same_string(result, id, i))

\* scan_successor that never sets successor_contains_completed_id.
RECURSIVE scan_successor_no_own(_, _, _)
scan_successor_no_own(variable_ids, completed_id, other_id) ==
    IF variable_ids = <<>>
    THEN [other_id |-> other_id, successor_contains_completed_id |-> FALSE]
    ELSE IF Head(variable_ids) = completed_id
    THEN scan_successor_no_own(Tail(variable_ids), completed_id, other_id)
    ELSE scan_successor_no_own(Tail(variable_ids), completed_id, <<Head(variable_ids)>>)

\* The scan of the successor's variables (lines 221-230): other_id (<<>> for
\* None) and successor_contains_completed_id.
RECURSIVE scan_successor(_, _, _)
scan_successor(variable_ids, completed_id, other_id) ==
    IF variable_ids = <<>>
    THEN [other_id |-> other_id, successor_contains_completed_id |-> FALSE]
    ELSE IF Head(variable_ids) = completed_id
    THEN [other_id |-> other_id, successor_contains_completed_id |-> TRUE]
    ELSE scan_successor(Tail(variable_ids), completed_id, <<Head(variable_ids)>>)

\* Whether the successor group disputes the completion (line 232).
is_disputed(grammar, completion, group) ==
    /\ completion # <<>>
    /\ LET scan == scan_successor(variable_ids_for_states(group.states, grammar),
                                  completion[1], <<>>)
       IN  scan.other_id # <<>> /\ ~scan.successor_contains_completed_id

\* mark_advance testing the winner's own following characters instead of the
\* other token's.
mark_advance_own_following(result, following_chars, winning_id, i, j, group) ==
    IF winning_id = i
    THEN <<[result[1] EXCEPT
              !.does_overlap = TRUE,
              !.does_match_valid_continuation =
                  @ \/ (InRange(following_chars, i)
                            /\ group.chars \cap At(following_chars, i) # {}),
              !.does_match_separators = @ \/ group.in_sep],
           result[2]>>
    ELSE <<result[1],
           [result[2] EXCEPT
              !.does_overlap = TRUE,
              !.does_match_valid_continuation =
                  @ \/ (InRange(following_chars, j)
                            /\ group.chars \cap At(following_chars, j) # {})]>>

\* mark_advance assigning does_match_valid_continuation the outcome of this
\* group's test instead of switching it on.
mark_advance_overwrites(result, following_chars, winning_id, i, j, group) ==
    IF winning_id = i
    THEN <<[result[1] EXCEPT
              !.does_overlap = TRUE,
              !.does_match_valid_continuation =
                  group.chars \cap At(following_chars, j) # {},
              !.does_match_separators = @ \/ group.in_sep],
           result[2]>>
    ELSE <<result[1],
           [result[2] EXCEPT
              !.does_overlap = TRUE,
              !.does_match_valid_continuation =
                  group.chars \cap At(following_chars, i) # {}]>>

\* mark_advance without the assignments to does_overlap.
mark_advance_no_overlap(result, following_chars, winning_id, i, j, group) ==
    IF winning_id = i
    THEN <<[result[1] EXCEPT
              !.does_match_valid_continuation =
                  @ \/ (group.chars \cap At(following_chars, j) # {}),
              !.does_match_separators = @ \/ group.in_sep],
           result[2]>>
    ELSE <<result[1],
           [result[2] EXCEPT
              !.does_match_valid_continuation =
                  @ \/ (group.chars \cap At(following_chars, i) # {})]>>

\* mark_advance recording separators for either winner.
mark_advance_separators_both(result, following_chars, winning_id, i, j, group) ==
    IF winning_id = i
    THEN <<[result[1] EXCEPT
              !.does_overlap = TRUE,
              !.does_match_valid_continuation =
                  @ \/ (group.chars \cap At(following_chars, j) # {}),
              !.does_match_separators = @ \/ group.in_sep],
           result[2]>>
    ELSE <<result[1],
           [result[2] EXCEPT
              !.does_overlap = TRUE,
              !.does_match_valid_continuation =
                  @ \/ (group.chars \cap At(following_chars, i) # {}),
              !.does_match_separators = @ \/ group.in_sep]>>

\* The flags set for the winner of a disputed advance (lines 241-254).
mark_advance(result, following_chars, winning_id, i, j, group) ==
    IF winning_id = i
    THEN <<[result[1] EXCEPT
              !.does_overlap = TRUE,
              !.does_match_valid_continuation =
                  @ \/ (group.chars \cap At(following_chars, j) # {}),
              !.does_match_separators = @ \/ group.in_sep],
           result[2]>>
    ELSE <<result[1],
           [result[2] EXCEPT
              !.does_overlap = TRUE,
              !.does_match_valid_continuation =
                  @ \/ (group.chars \cap At(following_chars, i) # {})]>>

\* group_step without the can_advance test of line 258: a suppressed advance is
\* still marked visited and enqueued.
group_step_never_suppresses(grammar, following_chars, i, j, completion, group, st) ==
    IF ~is_disputed(grammar, completion, group)
    THEN IF visited_insert(st.visited_state_sets, group.states)
         THEN [st EXCEPT !.visited_state_sets = @ \cup {group.states},
                         !.state_set_queue = Append(@, group.states)]
         ELSE st
    ELSE LET completed_id == completion[1]
             completed_precedence == completion[2]
             other_id == scan_successor(variable_ids_for_states(group.states, grammar),
                                        completed_id, <<>>).other_id[1]
             can_advance == ~(group.precedence < completed_precedence)
             winning_id == IF can_advance THEN other_id ELSE completed_id
             index == IF winning_id = i THEN j ELSE i
         IN  IF ~InRange(following_chars, index)
             THEN [st EXCEPT !.panicked = TRUE]
             ELSE LET marked == [st EXCEPT !.result =
                                   mark_advance(@, following_chars, winning_id, i, j, group)]
                  IN  IF visited_insert(st.visited_state_sets, group.states)
                      THEN [marked EXCEPT !.visited_state_sets = @ \cup {group.states},
                                          !.state_set_queue = Append(@, group.states)]
                      ELSE marked

\* One successor group (lines 219-260).  st holds the locals of the search;
\* st.panicked records an index past the end of following_chars.
group_step(grammar, following_chars, i, j, completion, group, st) ==
    IF ~is_disputed(grammar, completion, group)
    THEN IF visited_insert(st.visited_state_sets, group.states)
         THEN [st EXCEPT !.visited_state_sets = @ \cup {group.states},
                         !.state_set_queue = Append(@, group.states)]
         ELSE st
    ELSE LET completed_id == completion[1]
             completed_precedence == completion[2]
             other_id == scan_successor(variable_ids_for_states(group.states, grammar),
                                        completed_id, <<>>).other_id[1]
             can_advance == ~(group.precedence < completed_precedence)
             winning_id == IF can_advance THEN other_id ELSE completed_id
             index == IF winning_id = i THEN j ELSE i
         IN  IF ~InRange(following_chars, index)
             THEN [st EXCEPT !.panicked = TRUE]
             ELSE LET marked == [st EXCEPT !.result =
                                   mark_advance(@, following_chars, winning_id, i, j, group)]
                  IN  IF can_advance /\ visited_insert(st.visited_state_sets, group.states)
                      THEN [marked EXCEPT !.visited_state_sets = @ \cup {group.states},
                                          !.state_set_queue = Append(@, group.states)]
                      ELSE marked

RECURSIVE for_groups(_, _, _, _, _, _, _)
for_groups(grammar, following_chars, i, j, completion, groups, st) ==
    IF groups = <<>> \/ st.panicked THEN st
    ELSE for_groups(grammar, following_chars, i, j, completion, Tail(groups),
                    group_step(grammar, following_chars, i, j, completion, Head(groups), st))

\* The test of line 179 with the count compared to 0 instead of 1.
has_potential_conflict_off_by_one(state_set, grammar) ==
    Len(variable_ids_for_states(state_set, grammar)) > 0

\* Whether a popped state set is pursued (line 179).
has_potential_conflict(state_set, grammar) ==
    Len(variable_ids_for_states(state_set, grammar)) > 1

\* The body of `while let Some(state_set) = state_set_queue.pop()` (lines 177-262).
search_step(grammar, following_chars, i, j, st) ==
    LET state_set == Last(st.state_set_queue)
        popped == [st EXCEPT !.state_set_queue = Front(@)]
    IN  IF ~has_potential_conflict(state_set, grammar) THEN popped
        ELSE LET cur == reset(grammar.nfa, state_set)
                 folded == fold_completions(grammar, completions(grammar.nfa, cur), i,
                                            <<>>, popped.result)
             IN  for_groups(grammar, following_chars, i, j, folded.completion,
                            grouped_successors(grammar.nfa, cur),
                            [popped EXCEPT !.cursor = cur, !.result = folded.result])

\* The worklist without its element at a position.
RemoveAt(v, position) == SubSeq(v, 1, position - 1) \o SubSeq(v, position + 1, Len(v))

\* The body of the while loop (lines 178-261) applied to the state set at any
\* position of the worklist: search_step is the case position = Len(queue).
search_step_at(grammar, following_chars, i, j, st, position) ==
    LET state_set == st.state_set_queue[position]
        popped == [st EXCEPT !.state_set_queue = RemoveAt(@, position)]
    IN  IF ~has_potential_conflict(state_set, grammar) THEN popped
        ELSE LET cur == reset(grammar.nfa, state_set)
                 folded == fold_completions(grammar, completions(grammar.nfa, cur), i,
                                            <<>>, popped.result)
             IN  for_groups(grammar, following_chars, i, j, folded.completion,
                            grouped_successors(grammar.nfa, cur),
                            [popped EXCEPT !.cursor = cur, !.result = folded.result])

\* The locals of compute_conflict_status at its entry (lines 167-175); the
\* cursor is the caller's.
search_entry(grammar, i, j, cursor) ==
    [visited_state_sets |-> {},
     state_set_queue |-> << <<At(grammar.variables, i).start_state,
                              At(grammar.variables, j).start_state>> >>,
     result |-> <<DefaultStatus, DefaultStatus>>,
     cursor |-> cursor,
     panicked |-> FALSE]

---------------------------------------------------------------------------
(* The inputs of TokenConflictMap::new *)

FollowShapes == {"none", "test", "next", "all"}

\* The follow-set of the k-th entry, as the sequence its iterator yields.
\* "test" is the shape of tests::test_token_conflicts.
FollowSet(shape, k, n) ==
    CASE shape = "none" -> <<>>
      [] shape = "test" -> <<Symbol("Terminal", IF k = 1 THEN 0 ELSE 1)>>
      [] shape = "next" -> <<Symbol("NonTerminal", 0), Symbol("Terminal", (k + 1) % n)>>
      [] shape = "all"  -> [t \in 1..n |-> Symbol("Terminal", t - 1)]
                               \o <<Symbol("External", 0)>>

FollowingInputs(grammar) ==
    LET n == Len(grammar.variables)
    IN  {[k \in 1..len |-> FollowSet(shape, k - 1, n)] :
            shape \in FollowShapes, len \in 0..(n + MaxExtraFollowSets)}

---------------------------------------------------------------------------
(* The state *)

VARIABLES
    grammar,             \* the LexicalGrammar handed to new
    following_tokens,    \* the Vec<LookaheadSet> handed to new
    run,                 \* 1 for the first call of new, 2 for a second call on the same inputs
    pc,                  \* where new stands: "new", "pairs", "search", "built", "failed"
    starting_chars,      \* starting_chars_by_index
    following_chars,     \* following_chars_by_index
    i, j,                \* the loop variables of new
    status_matrix,       \* the matrix being built, then the built one
    cursor,              \* the state ids of the shared NfaCursor
    visited_state_sets,  \* locals of compute_conflict_status
    state_set_queue,
    result,
    query,               \* the last query made of the built map, with its answer
    pref,                \* the last prefer_token call, with its answers
    first_matrix,        \* the matrix the first call of new returned
    computed,            \* history: calls of compute_conflict_status per (i, j)
    writes,              \* history: assignments per matrix index
    returned,            \* history: the pair of records each call returned
    processed,           \* history: the state sets each call pursued
    pops                 \* history: the state sets the running call popped, those it
                         \* popped again, and whether it popped one other than the last

vars == <<grammar, following_tokens, run, pc, starting_chars, following_chars, i, j,
          status_matrix, cursor, visited_state_sets, state_set_queue, result, query,
          pref, first_matrix, computed, writes, returned, processed, pops>>

inputs == <<grammar, following_tokens>>
locals == <<cursor, visited_state_sets, state_set_queue, result>>
history == <<computed, writes, returned, processed, pops>>

n == Len(grammar.variables)

Tokens == 0..(n - 1)

NoQuery == [op |-> "none", a |-> 0, b |-> 0, other |-> 0, answer |-> FALSE]

NoPref == [left |-> <<0, 0>>, right |-> <<0, 0>>, answer |-> FALSE, swapped |-> FALSE,
           self |-> FALSE]

\* The history before new has run.
NoHistory(g) ==
    LET m == Len(g.variables)
    IN  [computed |-> [p \in (0..(m - 1)) \X (0..(m - 1)) |-> 0],
         writes |-> [k \in 1..(m * m) |-> 0],
         returned |-> [p \in (0..(m - 1)) \X (0..(m - 1)) |-> <<DefaultStatus, DefaultStatus>>],
         processed |-> [p \in (0..(m - 1)) \X (0..(m - 1)) |-> {}],
         pops |-> [popped |-> {}, again |-> {}, out_of_order |-> FALSE]]

Init ==
    /\ grammar \in Grammars
    /\ following_tokens \in FollowingInputs(grammar)
    /\ run = 1
    /\ pc = "new"
    /\ starting_chars = <<>>
    /\ following_chars = <<>>
    /\ i = 0
    /\ j = 0
    /\ status_matrix = <<>>
    /\ cursor = <<>>
    /\ visited_state_sets = {}
    /\ state_set_queue = <<>>
    /\ result = <<DefaultStatus, DefaultStatus>>
    /\ query = NoQuery
    /\ pref = NoPref
    /\ first_matrix = <<>>
    /\ computed = NoHistory(grammar).computed
    /\ writes = NoHistory(grammar).writes
    /\ returned = NoHistory(grammar).returned
    /\ processed = NoHistory(grammar).processed
    /\ pops = NoHistory(grammar).pops

---------------------------------------------------------------------------
(* TokenConflictMap::new *)

\* Lines 26-31: the cursor, the character sets and the default matrix.
New ==
    /\ pc = "new"
    /\ starting_chars' = get_starting_chars(grammar)
    /\ following_chars' = get_following_chars(starting_chars', following_tokens)
    /\ cursor' = reset(grammar.nfa, <<At(grammar.variables, n - 1).start_state>>)
    /\ status_matrix' = [k \in 1..(n * n) |-> DefaultStatus]
    /\ i' = 0
    /\ j' = 0
    /\ pc' = "pairs"
    /\ UNCHANGED <<inputs, run, visited_state_sets, state_set_queue, result, query, pref,
                   first_matrix, history>>

\* The loops `for i in 0..n { for j in 0..i {` (lines 32-33): the next pair at or
\* after (i, j), <<n, 0>> when the loops are over.
RECURSIVE next_pair(_, _, _)
next_pair(count, a, b) ==
    IF a >= count THEN <<count, 0>>
    ELSE IF b < a THEN <<a, b>>
    ELSE next_pair(count, a + 1, 0)

\* BeginPair with a visited set that outlives the call instead of a fresh one.
BeginPairKeepsVisited ==
    /\ pc = "pairs"
    /\ next_pair(n, i, j)[1] < n
    /\ LET pair == next_pair(n, i, j)
           st == search_entry(grammar, pair[1], pair[2], cursor)
       IN  /\ i' = pair[1]
           /\ j' = pair[2]
           /\ state_set_queue' = st.state_set_queue
           /\ result' = st.result
           /\ computed' = [computed EXCEPT ![pair] = @ + 1]
           /\ pops' = NoHistory(grammar).pops
    /\ pc' = "search"
    /\ UNCHANGED <<inputs, run, starting_chars, following_chars, status_matrix, cursor,
                   visited_state_sets, query, pref, first_matrix, writes, returned,
                   processed>>

\* Line 34, entering compute_conflict_status (lines 167-175).
BeginPair ==
    /\ pc = "pairs"
    /\ next_pair(n, i, j)[1] < n
    /\ LET pair == next_pair(n, i, j)
           st == search_entry(grammar, pair[1], pair[2], cursor)
       IN  /\ i' = pair[1]
           /\ j' = pair[2]
           /\ visited_state_sets' = st.visited_state_sets
           /\ state_set_queue' = st.state_set_queue
           /\ result' = st.result
           /\ computed' = [computed EXCEPT ![pair] = @ + 1]
           /\ pops' = NoHistory(grammar).pops
    /\ pc' = "search"
    /\ UNCHANGED <<inputs, run, starting_chars, following_chars, status_matrix, cursor,
                   query, pref, first_matrix, writes, returned, processed>>

\* One pass of the while loop of compute_conflict_status (lines 177-262).
PopStateSet ==
    /\ pc = "search"
    /\ state_set_queue # <<>>
    /\ LET st == search_step(grammar, following_chars, i, j,
                             [visited_state_sets |-> visited_state_sets,
                              state_set_queue |-> state_set_queue,
                              result |-> result,
                              cursor |-> cursor,
                              panicked |-> FALSE])
           state_set == Last(state_set_queue)
       IN  /\ visited_state_sets' = st.visited_state_sets
           /\ state_set_queue' = st.state_set_queue
           /\ result' = st.result
           /\ cursor' = st.cursor
           /\ pc' = IF st.panicked THEN "failed" ELSE "search"
           /\ processed' =
                  IF has_potential_conflict(state_set, grammar)
                  THEN [processed EXCEPT ![<<i, j>>] = @ \cup {state_set}]
                  ELSE processed
           /\ pops' = [pops EXCEPT !.popped = @ \cup {state_set},
                                   !.again = @ \cup ({state_set} \cap pops.popped)]
    /\ UNCHANGED <<inputs, run, starting_chars, following_chars, i, j, status_matrix,
                   query, pref, first_matrix, computed, writes, returned>>

\* The worklist is empty: compute_conflict_status returns (line 263) and new
\* stores the two records (lines 35-36).
ReturnStatus ==
    /\ pc = "search"
    /\ state_set_queue = <<>>
    /\ LET first == matrix_index(n, i, j)
           second == matrix_index(n, j, i)
       IN  /\ status_matrix' = [[status_matrix EXCEPT ![first + 1] = result[1]]
                                   EXCEPT ![second + 1] = result[2]]
           /\ writes' = [[writes EXCEPT ![first + 1] = @ + 1] EXCEPT ![second + 1] = @ + 1]
    /\ returned' = [returned EXCEPT ![<<i, j>>] = result]
    /\ j' = j + 1
    /\ pc' = "pairs"
    /\ UNCHANGED <<inputs, run, starting_chars, following_chars, i, locals, query, pref,
                   first_matrix, computed, processed, pops>>

\* Lines 40-46: the loops are over and the map is returned.
Finish ==
    /\ pc = "pairs"
    /\ next_pair(n, i, j)[1] >= n
    /\ i' = n
    /\ j' = 0
    /\ pc' = "built"
    /\ UNCHANGED <<inputs, run, starting_chars, following_chars, status_matrix, locals,
                   query, pref, first_matrix, history>>

\* A second call of new on the same grammar and follow-sets; the first map is
\* kept for comparison.
NewAgain ==
    /\ pc = "built"
    /\ run = 1
    /\ run' = 2
    /\ first_matrix' = status_matrix
    /\ pc' = "new"
    /\ query' = NoQuery
    /\ computed' = NoHistory(grammar).computed
    /\ writes' = NoHistory(grammar).writes
    /\ returned' = NoHistory(grammar).returned
    /\ processed' = NoHistory(grammar).processed
    /\ pops' = NoHistory(grammar).pops
    /\ UNCHANGED <<inputs, starting_chars, following_chars, i, j, status_matrix, locals,
                   pref>>

---------------------------------------------------------------------------
(* The queries of the built map *)

\* has_same_conflict_status comparing the two conflict flags only.
has_same_conflict_status_conflicts_only(matrix, count, a, b, other) ==
    LET left == At(matrix, matrix_index(count, a, other))
        right == At(matrix, matrix_index(count, b, other))
    IN  /\ left.does_match_valid_continuation = right.does_match_valid_continuation
        /\ left.does_match_separators = right.does_match_separators

has_same_conflict_status(matrix, count, a, b, other) ==
    LET left == At(matrix, matrix_index(count, a, other))
        right == At(matrix, matrix_index(count, b, other))
    IN  left = right

does_match_same_string(matrix, count, a, b) ==
    At(matrix, matrix_index(count, a, b)).matches_same_string

does_conflict(matrix, count, a, b) ==
    LET entry == At(matrix, matrix_index(count, a, b))
    IN  entry.does_match_valid_continuation \/ entry.does_match_separators

does_overlap(matrix, count, a, b) ==
    At(matrix, matrix_index(count, a, b)).does_overlap

HasSameConflictStatus ==
    /\ pc = "built"
    /\ \E a \in Tokens, b \in Tokens, other \in Tokens :
           query' = [op |-> "has_same_conflict_status", a |-> a, b |-> b, other |-> other,
                     answer |-> has_same_conflict_status(status_matrix, n, a, b, other)]
    /\ UNCHANGED <<inputs, run, pc, starting_chars, following_chars, i, j, status_matrix,
                   locals, pref, first_matrix, history>>

DoesMatchSameString ==
    /\ pc = "built"
    /\ \E a \in Tokens, b \in Tokens :
           query' = [op |-> "does_match_same_string", a |-> a, b |-> b, other |-> 0,
                     answer |-> does_match_same_string(status_matrix, n, a, b)]
    /\ UNCHANGED <<inputs, run, pc, starting_chars, following_chars, i, j, status_matrix,
                   locals, pref, first_matrix, history>>

DoesConflict ==
    /\ pc = "built"
    /\ \E a \in Tokens, b \in Tokens :
           query' = [op |-> "does_conflict", a |-> a, b |-> b, other |-> 0,
                     answer |-> does_conflict(status_matrix, n, a, b)]
    /\ UNCHANGED <<inputs, run, pc, starting_chars, following_chars, i, j, status_matrix,
                   locals, pref, first_matrix, history>>

DoesOverlap ==
    /\ pc = "built"
    /\ \E a \in Tokens, b \in Tokens :
           query' = [op |-> "does_overlap", a |-> a, b |-> b, other |-> 0,
                     answer |-> does_overlap(status_matrix, n, a, b)]
    /\ UNCHANGED <<inputs, run, pc, starting_chars, following_chars, i, j, status_matrix,
                   locals, pref, first_matrix, history>>

Query == HasSameConflictStatus \/ DoesMatchSameString \/ DoesConflict \/ DoesOverlap

Construct == New \/ BeginPair \/ PopStateSet \/ ReturnStatus \/ Finish

Next == Construct \/ NewAgain \/ Query

Spec == Init /\ [][Next]_vars

\* One pass of the while loop that takes any state set of the worklist, not
\* only the last.
PopAnyStateSet ==
    /\ pc = "search"
    /\ \E position \in 1..Len(state_set_queue) :
           LET st == search_step_at(grammar, following_chars, i, j,
                                    [visited_state_sets |-> visited_state_sets,
                                     state_set_queue |-> state_set_queue,
                                     result |-> result,
                                     cursor |-> cursor,
                                     panicked |-> FALSE],
                                    position)
               state_set == state_set_queue[position]
           IN  /\ visited_state_sets' = st.visited_state_sets
               /\ state_set_queue' = st.state_set_queue
               /\ result' = st.result
               /\ cursor' = st.cursor
               /\ pc' = IF st.panicked THEN "failed" ELSE "search"
               /\ processed' =
                      IF has_potential_conflict(state_set, grammar)
                      THEN [processed EXCEPT ![<<i, j>>] = @ \cup {state_set}]
                      ELSE processed
               /\ pops' = [pops EXCEPT
                              !.popped = @ \cup {state_set},
                              !.again = @ \cup ({state_set} \cap pops.popped),
                              !.out_of_order = @ \/ position # Len(state_set_queue)]
    /\ UNCHANGED <<inputs, run, starting_chars, following_chars, i, j, status_matrix,
                   query, pref, first_matrix, computed, writes, returned>>

\* new with a search that may take the worklist in any order.
NextAnyOrder == New \/ BeginPair \/ PopAnyStateSet \/ ReturnStatus \/ Finish

SpecAnyOrder == Init /\ [][NextAnyOrder]_vars

\* WF_vars(PopStateSet) with its enabling condition written out: a pass changes
\* the worklist or the visited set, so it is enabled exactly when the search has
\* a state set to pop.
PopStateSetFairness ==
    \/ []<>~(pc = "search" /\ state_set_queue # <<>>)
    \/ []<><<PopStateSet>>_vars

\* new runs on one thread to its end: every enabled step of it is taken.
FairSpec ==
    /\ Spec
    /\ WF_vars(New)
    /\ WF_vars(BeginPair)
    /\ PopStateSetFairness
    /\ WF_vars(ReturnStatus)
    /\ WF_vars(Finish)

---------------------------------------------------------------------------
(* prefer_token on its own: candidates over three tokens whose implicit     *)
(* precedences are drawn freely.                                          *)

PreferGrammars ==
    {[name |-> "prefer", nfa |-> <<>>,
      variables |-> << Variable("t0", ip[1], 0), Variable("t1", ip[2], 0),
                       Variable("t2", ip[3], 0) >>] :
        ip \in Precedences \X Precedences \X Precedences}

\* <<precedence, ordinal>>
Candidates == ((0 - MaxPrecedence)..MaxPrecedence) \X (0..2)

InitPrefer ==
    /\ grammar \in PreferGrammars
    /\ following_tokens = <<>>
    /\ run = 1
    /\ pc = "prefer"
    /\ starting_chars = <<>>
    /\ following_chars = <<>>
    /\ i = 0
    /\ j = 0
    /\ status_matrix = <<>>
    /\ cursor = <<>>
    /\ visited_state_sets = {}
    /\ state_set_queue = <<>>
    /\ result = <<DefaultStatus, DefaultStatus>>
    /\ query = NoQuery
    /\ pref = NoPref
    /\ first_matrix = <<>>
    /\ computed = NoHistory(grammar).computed
    /\ writes = NoHistory(grammar).writes
    /\ returned = NoHistory(grammar).returned
    /\ processed = NoHistory(grammar).processed
    /\ pops = NoHistory(grammar).pops

\* A caller compares two candidates both ways round, and the first with itself.
PreferToken ==
    /\ pc = "prefer"
    /\ \E left \in Candidates, right \in Candidates :
           pref' = [left |-> left, right |-> right,
                    answer |-> prefer_token(grammar, left, right),
                    swapped |-> prefer_token(grammar, right, left),
                    self |-> prefer_token(grammar, left, left)]
    /\ UNCHANGED <<inputs, run, pc, starting_chars, following_chars, i, j, status_matrix,
                   locals, query, first_matrix, history>>

SpecPrefer == InitPrefer /\ [][PreferToken]_vars

ImplicitPrecedence(ordinal) == At(grammar.variables, ordinal).implicit_precedence

---------------------------------------------------------------------------
(* The claims *)

\* C1: prefer_token never reports a tie between different candidates: a
\* candidate is never preferred to itself, and of two candidates that differ in
\* precedence or in ordinal exactly one is preferred to the other.
PreferTokenNeverTies ==
    /\ ~pref.self
    /\ (pref.left = pref.right => ~pref.answer /\ ~pref.swapped)
    /\ (pref.left # pref.right => (pref.answer = ~pref.swapped))

\* Two different candidates of equal precedence whose tokens have equal implicit
\* precedence: the ordinals decide, for the first.
PreferTokenOrdinalDecides ==
    /\ pc = "prefer"
    /\ pref.left # pref.right
    /\ pref.left[1] = pref.right[1]
    /\ ImplicitPrecedence(pref.left[2]) = ImplicitPrecedence(pref.right[2])
    /\ pref.answer
    /\ ~pref.swapped

Entry(a, b) == status_matrix[n * a + b + 1]

\* The call of compute_conflict_status that serves the tokens a and b.
PairOf(a, b) == IF a > b THEN <<a, b>> ELSE <<b, a>>

\* The completions the cursor yields at a state set, as a set.
CompletionsAt(state_set) ==
    LET comps == completions(grammar.nfa, reset(grammar.nfa, state_set))
    IN  {comps[k] : k \in 1..Len(comps)}

\* C3: when new returns, compute_conflict_status has run exactly once for every
\* pair i > j and never otherwise; its first record is the entry (i, j) and its
\* second the entry (j, i); every entry off the diagonal was written exactly
\* once, and no diagonal entry was written: it is the default record.
MatrixWrittenOncePerPair ==
    /\ \A a \in Tokens, b \in Tokens :
           /\ computed[<<a, b>>] <= (IF a > b THEN 1 ELSE 0)
           /\ writes[n * a + b + 1] <= (IF a # b THEN 1 ELSE 0)
    /\ pc = "built" =>
           \A a \in Tokens, b \in Tokens :
               /\ computed[<<a, b>>] = (IF a > b THEN 1 ELSE 0)
               /\ writes[n * a + b + 1] = (IF a # b THEN 1 ELSE 0)
               /\ a > b => Entry(a, b) = returned[<<a, b>>][1]
               /\ a > b => Entry(b, a) = returned[<<a, b>>][2]
               /\ a = b => Entry(a, b) = DefaultStatus

\* A built map over three tokens in which the two records of one call differ.
MatrixBuiltWithDistinctRecords ==
    /\ pc = "built"
    /\ n = 3
    /\ \E a \in Tokens, b \in Tokens :
           /\ a > b
           /\ returned[<<a, b>>][1] # returned[<<a, b>>][2]
           /\ returned[<<a, b>>][1] # DefaultStatus
           /\ Entry(a, b) # Entry(b, a)

\* prefer_token chooses the completion of a over that of b at the state set.
PrefersAt(state_set, a, b) ==
    \E ca \in CompletionsAt(state_set), cb \in CompletionsAt(state_set) :
        /\ ca[1] = a
        /\ cb[1] = b
        /\ prefer_token(grammar, <<ca[2], a>>, <<cb[2], b>>)

\* Both tokens complete at the state set.
BothCompleteAt(state_set, a, b) ==
    \E ca \in CompletionsAt(state_set), cb \in CompletionsAt(state_set) :
        ca[1] = a /\ cb[1] = b

\* C4: in a built map, does_match_same_string(a, b) for distinct tokens is
\* true exactly when the search of their pair pursued a state set at which both
\* complete and prefer_token chose a; so when a is chosen at every such state
\* set, and there is one, the flag is true for (a, b) and false for (b, a).
SameStringFollowsPreferredToken ==
    pc = "built" =>
        \A a \in Tokens, b \in Tokens :
            a # b =>
                /\ does_match_same_string(status_matrix, n, a, b)
                       <=> \E state_set \in processed[PairOf(a, b)] :
                               PrefersAt(state_set, a, b)
                /\ ( /\ \E state_set \in processed[PairOf(a, b)] :
                            BothCompleteAt(state_set, a, b)
                     /\ \A state_set \in processed[PairOf(a, b)] :
                            BothCompleteAt(state_set, a, b) => PrefersAt(state_set, a, b) )
                   => /\ does_match_same_string(status_matrix, n, a, b)
                      /\ ~does_match_same_string(status_matrix, n, b, a)

\* tests::test_token_conflicts, lines 355-357: `in` (0) against identifier (1).
SameStringInOverIdentifier ==
    /\ pc = "built"
    /\ grammar.name = "test_token_conflicts"
    /\ ImplicitPrecedence(0) > ImplicitPrecedence(1)
    /\ \E state_set \in processed[<<1, 0>>] : BothCompleteAt(state_set, 0, 1)
    /\ Entry(0, 1).matches_same_string
    /\ ~Entry(1, 0).matches_same_string

\* The completion the search settles on at a state set: the one preferred to
\* every completion of another token.
ChosenCompletionAt(state_set, c) ==
    /\ c \in CompletionsAt(state_set)
    /\ \A d \in CompletionsAt(state_set) :
           d[1] # c[1] => prefer_token(grammar, <<c[2], c[1]>>, <<d[2], d[1]>>)

OwnersOf(states) ==
    {variable_index_for_nfa_state(grammar, states[k]) : k \in 1..Len(states)}

GroupsAt(state_set) ==
    LET groups == grouped_successors(grammar.nfa, reset(grammar.nfa, state_set))
    IN  {groups[k] : k \in 1..Len(groups)}

\* At the state set, a is the chosen completion and the group leads to states of
\* b and none of a, at a precedence not below a's, on characters that may
\* follow a.
ValidContinuationAt(state_set, group, a, b) ==
    \E c \in CompletionsAt(state_set) :
        /\ c[1] = a
        /\ ChosenCompletionAt(state_set, c)
        /\ a \notin OwnersOf(group.states)
        /\ b \in OwnersOf(group.states)
        /\ group.precedence >= c[2]
        /\ InRange(following_chars, a)
        /\ group.chars \cap At(following_chars, a) # {}

\* C5: in a built map, does_conflict(b, a) is true whenever the search of the
\* pair pursued a state set at which a is the chosen completion and a successor
\* group holds states of b and none of a, has an advance precedence not lower
\* than a's completion precedence, and meets the following characters of a.
ValidContinuationConflicts ==
    pc = "built" =>
        \A a \in Tokens, b \in Tokens :
            a # b =>
                \A state_set \in processed[PairOf(a, b)] :
                    \A group \in GroupsAt(state_set) :
                        ValidContinuationAt(state_set, group, a, b)
                            => does_conflict(status_matrix, n, b, a)

\* tests::test_token_conflicts, lines 359-366: identifier over `in`, identifier
\* over `instanceof`, `instanceof` over `in`, each through such a group.
ValidContinuationInTestGrammar ==
    /\ pc = "built"
    /\ grammar.name = "test_token_conflicts"
    /\ \A p \in {<<0, 1>>, <<2, 1>>, <<0, 2>>} :
           /\ \E state_set \in processed[PairOf(p[1], p[2])] :
                  \E group \in GroupsAt(state_set) :
                      ValidContinuationAt(state_set, group, p[1], p[2])
           /\ does_conflict(status_matrix, n, p[2], p[1])

ElementsOf(seq) == {seq[k] : k \in 1..Len(seq)}

\* C9: the following characters of each token are the union of the starting
\* characters of the terminal symbols of its follow-set; other symbols add
\* nothing and an empty follow-set gives the empty set.
FollowingCharsAreTerminalStarts ==
    pc \in {"pairs", "search", "built", "failed"} =>
        /\ Len(following_chars) = Len(following_tokens)
        /\ \A k \in 1..Len(following_tokens) :
               /\ following_chars[k] =
                      UNION {starting_chars[t.index + 1] :
                                 t \in {s \in ElementsOf(following_tokens[k]) :
                                            s.kind = "Terminal"}}
               /\ following_tokens[k] = <<>> => following_chars[k] = {}

\* A follow-set with a terminal and a non-terminal whose starting characters
\* differ: only the terminal's are following characters.
FollowingCharsSkipNonTerminal ==
    /\ pc = "pairs"
    /\ Len(following_tokens) >= 1
    /\ \E t \in ElementsOf(following_tokens[1]), u \in ElementsOf(following_tokens[1]) :
           /\ t.kind = "Terminal"
           /\ u.kind = "NonTerminal"
           /\ following_chars[1] = starting_chars[t.index + 1]
           /\ ~(starting_chars[u.index + 1] \subseteq following_chars[1])

\* The four flags of two entries agree.
SameFlags(left, right) ==
    /\ left.does_overlap = right.does_overlap
    /\ left.does_match_valid_continuation = right.does_match_valid_continuation
    /\ left.does_match_separators = right.does_match_separators
    /\ left.matches_same_string = right.matches_same_string

\* C10: no query changes an entry of the built matrix, and
\* has_same_conflict_status(a, b, other) answers whether the entries (a, other)
\* and (b, other) agree on all four flags.
QueriesOnlyRead ==
    /\ [][(pc = "built" /\ pc' = "built")
              => /\ status_matrix' = status_matrix
                 /\ starting_chars' = starting_chars
                 /\ following_chars' = following_chars]_vars
    /\ [](query.op = "has_same_conflict_status"
              => query.answer = SameFlags(Entry(query.a, query.other),
                                          Entry(query.b, query.other)))

\* has_same_conflict_status answered no for two entries that agree on both
\* conflict flags.
SameStatusDeniedOnOverlapOnly ==
    /\ pc = "built"
    /\ query.op = "has_same_conflict_status"
    /\ ~query.answer
    /\ Entry(query.a, query.other).does_match_valid_continuation
           = Entry(query.b, query.other).does_match_valid_continuation
    /\ Entry(query.a, query.other).does_match_separators
           = Entry(query.b, query.other).does_match_separators

\* The state set the next pass of the while loop pops.
PoppedStateSet == Last(state_set_queue)

\* The next step is a pass of the loop that pursues the popped state set.
Pursuing ==
    /\ pc = "search"
    /\ state_set_queue # <<>>
    /\ Cardinality(OwnersOf(PoppedStateSet)) >= 2

\* The pursued state set is a completion tie of the two tokens of the pair.
TieAt == Pursuing /\ BothCompleteAt(PoppedStateSet, i, j)

\* C11 as stated: at a completion tie in the search of (i, j), matches_same_string
\* and does_overlap are set on the record of the token that loses the tie.
TieFlagsOnLoser ==
    [][TieAt =>
          IF PrefersAt(PoppedStateSet, i, j)
          THEN result'[2].matches_same_string /\ result'[2].does_overlap
          ELSE result'[1].matches_same_string /\ result'[1].does_overlap]_vars

\* C11, amended: at a completion tie in the search of (i, j), matches_same_string
\* and does_overlap are set on the record of the token that wins the tie: the
\* first record when i wins, the second when j wins; matches_same_string of the
\* loser's record is left as it was.
TieFlagsOnWinner ==
    [][TieAt =>
          IF PrefersAt(PoppedStateSet, i, j)
          THEN /\ result'[1].matches_same_string
               /\ result'[1].does_overlap
               /\ result'[2].matches_same_string = result[2].matches_same_string
          ELSE /\ result'[2].matches_same_string
               /\ result'[2].does_overlap
               /\ result'[1].matches_same_string = result[1].matches_same_string]_vars

\* The search has passed a tie that i won: the first record holds the two
\* flags, the second does not match the same string.
TieWonByFirstOfPair ==
    /\ pc = "search"
    /\ \E state_set \in processed[<<i, j>>] :
           BothCompleteAt(state_set, i, j) /\ PrefersAt(state_set, i, j)
    /\ result[1].matches_same_string
    /\ result[1].does_overlap
    /\ ~result[2].matches_same_string

PushedByStep ==
    {state_set_queue'[k] : k \in Len(state_set_queue)..Len(state_set_queue')}

\* The record of the search that belongs to a token of the pair.
RecordOf(token, records) == IF token = i THEN records[1] ELSE records[2]

\* The token of the pair that did not complete.
OtherToken(token) == IF token = i THEN j ELSE i

\* The group's next states hold no state of the completed token c[1], and some
\* state of the other token.
DisputesCompletion(group, c) ==
    /\ c[1] \notin OwnersOf(group.states)
    /\ OtherToken(c[1]) \in OwnersOf(group.states)

\* C13: in a pass over a state set with a chosen completion, for a group whose
\* next states hold no state of the completed token and some state of the other:
\* with an advance precedence strictly below the completion's the completed token
\* wins (its record overlaps) and the transition neither marks the next state set
\* visited nor enqueues it (if it is marked or enqueued, another group that is
\* not suppressed leads to it); otherwise the other token wins, the next state
\* set is visited, and it is enqueued exactly when it was not visited before.
SuppressedAdvances ==
    [][(Pursuing /\ pc' = "search") =>
          \A c \in CompletionsAt(PoppedStateSet) :
              ChosenCompletionAt(PoppedStateSet, c) =>
                  \A group \in GroupsAt(PoppedStateSet) :
                      DisputesCompletion(group, c) =>
                          IF group.precedence < c[2]
                          THEN /\ RecordOf(c[1], result').does_overlap
                               /\ (group.states \in PushedByStep
                                       \/ group.states \in visited_state_sets' \ visited_state_sets)
                                  => \E other \in GroupsAt(PoppedStateSet) :
                                         /\ other.states = group.states
                                         /\ ~(DisputesCompletion(other, c)
                                                  /\ other.precedence < c[2])
                          ELSE /\ RecordOf(OtherToken(c[1]), result').does_overlap
                               /\ group.states \in visited_state_sets'
                               /\ group.states \in PushedByStep
                                      <=> group.states \notin visited_state_sets]_vars

\* The search has passed a state set where token 0 had completed and one
\* disputed advance was suppressed and another was not: both records overlap,
\* the next state set of the first alone is not visited, that of the second is.
AdvanceSuppressedAndNot ==
    /\ pc = "search"
    /\ \E state_set \in processed[<<i, j>>] :
           \E c \in CompletionsAt(state_set) :
               /\ ChosenCompletionAt(state_set, c)
               /\ \E low \in GroupsAt(state_set), high \in GroupsAt(state_set) :
                      /\ DisputesCompletion(low, c)
                      /\ DisputesCompletion(high, c)
                      /\ low.precedence < c[2]
                      /\ high.precedence >= c[2]
                      /\ high.states \in visited_state_sets
                      /\ RecordOf(c[1], result).does_overlap
                      /\ RecordOf(OtherToken(c[1]), result).does_overlap
    /\ \E state_set \in processed[<<i, j>>] :
           \E c \in CompletionsAt(state_set), low \in GroupsAt(state_set) :
               /\ ChosenCompletionAt(state_set, c)
               /\ DisputesCompletion(low, c)
               /\ low.precedence < c[2]
               /\ low.states \notin visited_state_sets

\* The token that wins a disputed advance against the chosen completion c.
WinnerOfAdvance(group, c) ==
    IF group.precedence < c[2] THEN c[1] ELSE OtherToken(c[1])

\* At the state set some group disputes the chosen completion, the token wins
\* that advance, and the group meets the condition.
DisputedGroupWonBy(state_set, token, Condition(_)) ==
    \E c \in CompletionsAt(state_set), group \in GroupsAt(state_set) :
        /\ ChosenCompletionAt(state_set, c)
        /\ DisputesCompletion(group, c)
        /\ WinnerOfAdvance(group, c) = token
        /\ Condition(group)

\* A group that does not dispute a completion: the state set has no completion,
\* or the group's next states hold a state of the completed token.
Undisputed(state_set, group) ==
    \/ CompletionsAt(state_set) = {}
    \/ \E c \in CompletionsAt(state_set) :
           ChosenCompletionAt(state_set, c) /\ c[1] \in OwnersOf(group.states)

\* C14: a group changes no flag and is not suppressed when the state set has no
\* completion or the group's next states hold a state of the completed token:
\* every flag a pass switches on comes from the completion tie or from a group
\* that disputes the completion, and the next state set of every other group is
\* visited after the pass and enqueued exactly when it was not visited before.
UndisputedGroupsOnlyAdvance ==
    [][(Pursuing /\ pc' = "search") =>
          /\ \A token \in {i, j} :
                 LET old == RecordOf(token, result)
                     new == RecordOf(token, result')
                     tie == PrefersAt(PoppedStateSet, token, OtherToken(token))
                 IN  /\ (new.matches_same_string /\ ~old.matches_same_string) => tie
                     /\ (new.does_overlap /\ ~old.does_overlap) =>
                            \/ tie
                            \/ DisputedGroupWonBy(PoppedStateSet, token, LAMBDA g : TRUE)
                     /\ (new.does_match_valid_continuation
                             /\ ~old.does_match_valid_continuation) =>
                            DisputedGroupWonBy(PoppedStateSet, token,
                                LAMBDA g : g.chars \cap At(following_chars, OtherToken(token)) # {})
                     /\ (new.does_match_separators /\ ~old.does_match_separators) =>
                            DisputedGroupWonBy(PoppedStateSet, token, LAMBDA g : g.in_sep)
          /\ \A group \in GroupsAt(PoppedStateSet) :
                 Undisputed(PoppedStateSet, group) =>
                     /\ group.states \in visited_state_sets'
                     /\ group.states \in PushedByStep
                            <=> group.states \notin visited_state_sets]_vars

\* The search has passed a state set whose completed token continues in a group
\* together with the other token, on a character that may follow the completed
\* token: the group was pursued and set no valid continuation.
OwnContinuationSetNoFlag ==
    /\ pc = "search"
    /\ \E state_set \in processed[<<i, j>>] :
           \E c \in CompletionsAt(state_set), group \in GroupsAt(state_set) :
               /\ ChosenCompletionAt(state_set, c)
               /\ c[1] \in OwnersOf(group.states)
               /\ OtherToken(c[1]) \in OwnersOf(group.states)
               /\ Head(variable_ids_for_states(group.states, grammar)) # c[1]
               /\ InRange(following_chars, c[1])
               /\ group.chars \cap At(following_chars, c[1]) # {}
               /\ group.states \in visited_state_sets
               /\ ~RecordOf(OtherToken(c[1]), result).does_match_valid_continuation

\* C15: does_match_separators is recorded for the first token of a computed pair
\* only: the second record of a search never holds it, and no entry (a, b) with
\* a < b of the matrix holds it, while it is built and when it is built.
SeparatorsOnlyForFirstOfPair ==
    /\ ~result[2].does_match_separators
    /\ \A a \in Tokens, b \in Tokens :
           (a < b /\ Len(status_matrix) = n * n) => ~Entry(a, b).does_match_separators
    /\ \A a \in Tokens, b \in Tokens :
           a > b => ~returned[<<a, b>>][2].does_match_separators

\* A built map in whose search token 0 won an advance through a separator
\* against the completed token 1: the entry (0, 1) overlaps and holds no
\* separator flag.
SeparatorAdvanceWonBySecond ==
    /\ pc = "built"
    /\ \E state_set \in processed[<<1, 0>>] :
           \E c \in CompletionsAt(state_set), group \in GroupsAt(state_set) :
               /\ ChosenCompletionAt(state_set, c)
               /\ c[1] = 1
               /\ OwnersOf(group.states) = {0}
               /\ group.precedence >= c[2]
               /\ group.in_sep
    /\ Entry(0, 1).does_overlap
    /\ ~Entry(0, 1).does_match_separators

\* The state set with its states in another order.
Reordered(state_set, perm) == [k \in 1..Len(state_set) |-> state_set[perm[k]]]

\* C16: a popped state set is discarded exactly when fewer than two distinct
\* tokens own its states; the count of owners with adjacent repetitions dropped
\* is above 1 exactly then, in whatever order the states stand; a discarded
\* state set changes no flag, leaves the cursor and the visited set alone and
\* pushes nothing, and a state set that is not discarded resets the cursor.
PrunedStateSetsChangeNothing ==
    [][(pc = "search" /\ state_set_queue # <<>>) =>
          /\ \A perm \in Permutations(1..Len(PoppedStateSet)) :
                 Len(variable_ids_for_states(Reordered(PoppedStateSet, perm), grammar)) > 1
                     <=> Cardinality(OwnersOf(PoppedStateSet)) >= 2
          /\ IF Cardinality(OwnersOf(PoppedStateSet)) < 2
             THEN /\ result' = result
                  /\ cursor' = cursor
                  /\ visited_state_sets' = visited_state_sets
                  /\ state_set_queue' = Front(state_set_queue)
                  /\ processed' = processed
                  /\ pc' = "search"
             ELSE /\ cursor' = reset(grammar.nfa, PoppedStateSet)
                  /\ PoppedStateSet \in processed'[<<i, j>>]]_vars

\* The search has popped and discarded a state set of two states of one token:
\* the cursor still stands at an earlier state set.
TwoStatesOfOneTokenDiscarded ==
    /\ pc = "search"
    /\ \E state_set \in pops.popped \ processed[<<i, j>>] :
           /\ Len(state_set) = 2
           /\ Cardinality(OwnersOf(state_set)) = 1
           /\ cursor # reset(grammar.nfa, state_set)
           /\ \E earlier \in processed[<<i, j>>] : cursor = reset(grammar.nfa, earlier)
    /\ \E state_set \in processed[<<i, j>>] :
           Len(variable_ids_for_states(state_set, grammar)) = 2
               /\ \E perm \in Permutations(1..Len(state_set)) :
                      Len(variable_ids_for_states(Reordered(state_set, perm), grammar)) = 3

\* A record with any of the three other flags has does_overlap.
OverlapCoversFlags(status) ==
    (status.matches_same_string \/ status.does_match_valid_continuation
         \/ status.does_match_separators) => status.does_overlap

\* C17: does_overlap is true whenever another flag is, in both records of a
\* search at every step and in every entry of the matrix; so does_conflict and
\* does_match_same_string of a built map each imply does_overlap.
OverlapWheneverAnyFlag ==
    /\ OverlapCoversFlags(result[1])
    /\ OverlapCoversFlags(result[2])
    /\ \A k \in 1..Len(status_matrix) : OverlapCoversFlags(status_matrix[k])
    /\ pc = "built" =>
           \A a \in Tokens, b \in Tokens :
               /\ does_conflict(status_matrix, n, a, b) => does_overlap(status_matrix, n, a, b)
               /\ does_match_same_string(status_matrix, n, a, b)
                      => does_overlap(status_matrix, n, a, b)

\* A built map with an entry that conflicts without matching the same string
\* and an entry that matches the same string: both overlap.
ConflictAndSameStringOverlap ==
    /\ pc = "built"
    /\ \E a \in Tokens, b \in Tokens :
           /\ does_conflict(status_matrix, n, a, b)
           /\ ~does_match_same_string(status_matrix, n, a, b)
           /\ does_overlap(status_matrix, n, a, b)
    /\ \E a \in Tokens, b \in Tokens :
           /\ does_match_same_string(status_matrix, n, a, b)
           /\ does_overlap(status_matrix, n, a, b)

\* The seed of the search of the pair (i, j).
SeedOf == <<At(grammar.variables, i).start_state, At(grammar.variables, j).start_state>>

\* The group's advance is suppressed at the state set: it disputes the chosen
\* completion at a precedence below it.
SuppressedAt(state_set, group) ==
    \E c \in CompletionsAt(state_set) :
        /\ ChosenCompletionAt(state_set, c)
        /\ DisputesCompletion(group, c)
        /\ group.precedence < c[2]

\* The state sets one transition away: none out of a pruned state set, none
\* through a suppressed advance.
TransitionsOutOf(state_set) ==
    IF Cardinality(OwnersOf(state_set)) < 2 THEN {}
    ELSE {group.states :
              group \in {g \in GroupsAt(state_set) : ~SuppressedAt(state_set, g)}}

RECURSIVE ReachableFrom(_, _)
ReachableFrom(frontier, seen) ==
    IF frontier = {} THEN seen
    ELSE LET next == UNION {TransitionsOutOf(state_set) : state_set \in frontier} \ seen
         IN  ReachableFrom(next, seen \cup next)

\* The state sets reachable from the seed that are not pruned.
PursuedReachable ==
    {state_set \in ReachableFrom({SeedOf}, {SeedOf}) :
         Cardinality(OwnersOf(state_set)) >= 2}

\* The flag-wise OR, for one token of the pair, of what each such state set
\* contributes.
OrOfContributions(token) ==
    LET other == OtherToken(token)
    IN  [matches_same_string |->
             \E state_set \in PursuedReachable : PrefersAt(state_set, token, other),
         does_overlap |->
             \E state_set \in PursuedReachable :
                 \/ PrefersAt(state_set, token, other)
                 \/ DisputedGroupWonBy(state_set, token, LAMBDA g : TRUE),
         does_match_valid_continuation |->
             \E state_set \in PursuedReachable :
                 DisputedGroupWonBy(state_set, token,
                     LAMBDA g : g.chars \cap At(following_chars, other) # {}),
         does_match_separators |->
             /\ token = i
             /\ \E state_set \in PursuedReachable :
                    DisputedGroupWonBy(state_set, token, LAMBDA g : g.in_sep)]

\* No flag of the record is switched off.
FlagsKept(old, new) ==
    /\ old.does_overlap => new.does_overlap
    /\ old.does_match_valid_continuation => new.does_match_valid_continuation
    /\ old.does_match_separators => new.does_match_separators
    /\ old.matches_same_string => new.matches_same_string

\* C18: in whatever order the worklist is taken, a search only switches flags
\* on, and the records it returns are the flag-wise OR of the contributions of
\* the state sets reachable from the seed through unsuppressed transitions out
\* of unpruned state sets, which are the state sets it has processed.
SearchResultIsOrderIndependent ==
    /\ [][pc = "search" =>
              FlagsKept(result[1], result'[1]) /\ FlagsKept(result[2], result'[2])]_vars
    /\ [][(pc = "search" /\ pc' = "pairs") =>
              /\ result = <<OrOfContributions(i), OrOfContributions(j)>>
              /\ processed[<<i, j>>] = PursuedReachable]_vars

\* A search whose worklist held two state sets to pursue, and which took the
\* earlier of them first, has returned, with flags in both records.
WorklistTakenOutOfOrder ==
    /\ pc = "pairs"
    /\ j >= 1
    /\ grammar.name = "diamond"
    /\ pops.out_of_order
    /\ Cardinality(processed[<<i, j - 1>>]) >= 4
    /\ returned[<<i, j - 1>>][1].does_overlap
    /\ returned[<<i, j - 1>>][2].matches_same_string

====
